---- MODULE Spec2Model ----
(***************************************************************************)
(* The random-block manager of crimson/os/seastore                         *)
(* (randomblock_manager.cc): a block device holding a superblock, a        *)
(* bitmap area and a data area, and the transactional allocator on top of  *)
(* the on-disk bitmap.                                                     *)
(*                                                                         *)
(* Block ids are device block indices counted from the start of the        *)
(* device: bit i of bitmap block B stands for block id B * M + i.          *)
(* Sizes are scaled: a bitmap block holds BitsPerBlock bits and a block    *)
(* has BlockSize bytes, so that every alignment case of the code is        *)
(* reached on a device of a dozen blocks.                                  *)
(***************************************************************************)
EXTENDS Integers, Sequences, FiniteSets, TLC

(* ------------------------------ bounds --------------------------------- *)

\* Bits of one bitmap block (M); (block_size - header) * 8 in the program.
BitsPerBlock == 8

\* Bytes of one device block (mkfs_config_t::block_size).
BlockSize == 2

\* Blocks of the device the transactional specification formats.
TotalBlocks == 12

\* Operations issued after mkfs in one run of the transactional specification.
MaxSteps == 5

\* Largest allocation request, in blocks.
MaxAllocBlocks == 6

\* Longest range handed to free_extent, in blocks.
MaxFreeLen == 2

\* Deltas one transaction accumulates.
MaxDeltas == 2

\* Device operations of one complete_allocation up to which an error is
\* injected.
MaxFault == 4

(* --------------------------- plain helpers ----------------------------- *)

SetMax(S) == CHOOSE x \in S : \A y \in S : y <= x

SetMin(S) == CHOOSE x \in S : \A y \in S : x <= y

\* free_block_count is a uint64_t; the width is scaled to 16 bits because the
\* model checker's integers are 32 bits wide.  Only wrap-around matters.
CounterModulus == 2 ^ 16

\* Unsigned arithmetic of the scaled width.
Wrap(x) == x % CounterModulus

\* include/intarith.h round_up_to(n, d)
round_up_to(n, d) == ((n + d - 1) \div d) * d

(* ------------------------- persistent layout --------------------------- *)

\* RBM_SUPERBLOCK_SIZE: one device block.
RBM_SUPERBLOCK_SIZE == BlockSize

\* The magic mkfs stores (super.magic = 0xFF).
RBM_MAGIC == 255

\* max_block_by_bitmap_block(): bits of one bitmap block.
max_block_by_bitmap_block == BitsPerBlock

\* convert_block_no_to_bitmap_block(block_no)
convert_block_no_to_bitmap_block(block_no) == block_no \div max_block_by_bitmap_block

\* convert_bitmap_block_no_to_block_id(offset, addr): the bitmap begins at block 1.
convert_bitmap_block_no_to_block_id(s, offset, addr) ==
  (addr \div s.block_size - 1) * max_block_by_bitmap_block + offset

\* num_block_between_blk_ids(start, end): bitmap blocks the range touches.
num_block_between_blk_ids(start, end) ==
  end \div max_block_by_bitmap_block - start \div max_block_by_bitmap_block + 1

\* get_alloc_area_size(): bytes of the bitmap area for the device of super s.
get_alloc_area_size(s) ==
  LET total_block_num == s.size \div s.block_size
      need_blocks == IF total_block_num % max_block_by_bitmap_block # 0
                     THEN total_block_num \div max_block_by_bitmap_block + 1
                     ELSE total_block_num \div max_block_by_bitmap_block
  IN  need_blocks * s.block_size

\* A bitmap block's bit array: bit i set <=> block allocated.
BitIdx == 0 .. (max_block_by_bitmap_block - 1)

\* alloc_rbm_bitmap_block_buf: a zeroed bit array.
alloc_rbm_bitmap_block_buf == [i \in BitIdx |-> FALSE]

\* rbm_bitmap_block_t::is_allocated(nr)
is_allocated(bits, nr) == bits[nr]

\* Bits lo..hi of a block set (ALL_SET) or cleared: the loops of
\* rbm_bitmap_block_t::set_bit(i) / clear_bit(i) over i = lo .. hi.
ApplyBits(bits, lo, hi, op) ==
  [i \in BitIdx |-> IF i >= lo /\ i <= hi THEN (op = "ALL_SET") ELSE bits[i]]

\* Device block contents.
ZeroBlock == [kind |-> "zero"]

BitmapBlock(bits) == [kind |-> "bitmap", bits |-> bits]

\* decode(rbm_bitmap_block_t, bufferlist): the bit array a device block holds.
DecodeBitmap(c) == IF c.kind = "bitmap" THEN c.bits ELSE alloc_rbm_bitmap_block_buf

\* add_cont_bitmap_blocks_to_buf(buf, num_block, op): num_block identical
\* fresh blocks, all bits set (ALL_SET) or all clear, appended to buf.
add_cont_bitmap_blocks_to_buf(buf, num_block, op) ==
  buf \o [k \in 1 .. num_block |->
            BitmapBlock([i \in BitIdx |-> (op = "ALL_SET")])]

(* ------------------------------ device --------------------------------- *)

\* device->read(addr, one block)
DevRead(d, s, addr) == d[addr \div s.block_size]

\* device->write(addr, buf): buf is a sequence of whole blocks.
DevWrite(d, s, addr, buf) ==
  LET base == addr \div s.block_size
  IN  [b \in DOMAIN d |->
         IF b >= base /\ b < base + Len(buf) THEN buf[b - base + 1] ELSE d[b]]

(* ----------------------------- superblock ------------------------------ *)

\* The manager's in-memory super before mkfs or open filled it.
EmptySuper ==
  [magic |-> 0, start |-> 0, end |-> 0, block_size |-> 0, size |-> 0,
   free_block_count |-> 0, alloc_area_size |-> 0, start_alloc_area |-> 0,
   start_data_area |-> 0, feature |-> 0, crc |-> 0]

\* feature bit RBM_BITMAP_BLOCK_CRC
RBM_BITMAP_BLOCK_CRC == 1

\* crc32c(-1) over the encoded superblock with its crc field zeroed: a
\* checksum of every encoded field but crc.
HeaderCrc(s) ==
  (1 + s.magic + 3 * s.start + 5 * s.end + 7 * s.block_size + 11 * s.size
     + 13 * s.free_block_count + 17 * s.alloc_area_size
     + 19 * s.start_alloc_area + 23 * s.start_data_area + 29 * s.feature)
  % 65521

\* The device block write_rbm_header stores: the encoded super.
SuperBlock(s) == [kind |-> "super", hdr |-> s]

\* write_rbm_header(): crc over the header with crc = 0, then the header
\* with the crc in place written at super.start.  <<super', dev'>>
write_rbm_header(d, s) ==
  LET s1 == [s EXCEPT !.crc = HeaderCrc(s)]
  IN  [super |-> s1, dev |-> DevWrite(d, s1, s1.start, <<SuperBlock(s1)>>)]

\* read_rbm_header(addr): enoent when the block does not decode, an
\* input/output error when the crc does not verify, else the header.
read_rbm_header(d, addr_blk) ==
  LET c == d[addr_blk]
  IN  IF c.kind # "super" THEN [err |-> "enoent", hdr |-> EmptySuper]
      ELSE IF HeaderCrc(c.hdr) # c.hdr.crc
           THEN [err |-> "eio", hdr |-> EmptySuper]
           ELSE [err |-> "ok", hdr |-> c.hdr]

(* ---------------------------- bitmap engine ---------------------------- *)

\* write(addr, bufferlist): copies the list into one aligned buffer and
\* writes it; no range check.
write_bl(d, s, addr, buf) == DevWrite(d, s, addr, buf)

\* rbm_sync_block_bitmap(block, block_no): one populated bitmap block written
\* at start_alloc_area + (block_no / M) * block_size.
rbm_sync_block_bitmap(d, s, bits, block_no) ==
  DevWrite(d, s,
           s.start_alloc_area
             + convert_block_no_to_bitmap_block(block_no) * s.block_size,
           <<BitmapBlock(bits)>>)

\* The test that selects the write without a read.
IsAlignedRange(start, end) ==
  /\ start % max_block_by_bitmap_block = 0
  /\ end % (max_block_by_bitmap_block - 1) = 0

\* The block appended for the trailing bitmap block: the buffer that was
\* read (block), not the decoded copy b_block whose bits the loop changed.
TrailingBlock(read_block, b_block) == read_block

\* Fresh blocks appended between the first and the last bitmap block when
\* both ends of the range are unaligned.
MiddleBlocks_UpToLast(num_block) == IF num_block > 2 THEN num_block - 1 ELSE 0

MiddleBlocks(num_block) == IF num_block > 2 THEN num_block - 2 ELSE 0

\* next_addr: the address of the bitmap block that holds end.
TrailingAddr_Previous(s, end) ==
  s.start_alloc_area
    + ((end \div max_block_by_bitmap_block) - 1) * s.block_size

TrailingAddr(s, end) ==
  s.start_alloc_area + (end \div max_block_by_bitmap_block) * s.block_size

\* rbm_sync_block_bitmap_by_range(start, end, op): the device afterwards and
\* the device operations issued, in order.
rbm_sync_block_bitmap_by_range(d, s, start, end, op) ==
  LET max == max_block_by_bitmap_block
      addr == s.start_alloc_area + (start \div max) * s.block_size
      num_block == num_block_between_blk_ids(start, end)
  IN  IF IsAlignedRange(start, end)
      THEN LET bl == add_cont_bitmap_blocks_to_buf(<<>>, num_block, op)
           IN  [dev |-> write_bl(d, s, addr, bl),
                io |-> << <<"write", addr, Len(bl)>> >>]
      ELSE
        LET b_block == DecodeBitmap(DevRead(d, s, addr))
            loop_end == IF end < (start \div max + 1) * max
                        THEN end % max ELSE max - 1
            front == << BitmapBlock(ApplyBits(b_block, start % max, loop_end, op)) >>
            rd1 == << <<"read", addr, 1>> >>
        IN  IF num_block = 1
            THEN [dev |-> write_bl(d, s, addr, front),
                  io |-> rd1 \o << <<"write", addr, 1>> >>]
            ELSE IF (end + 1) % max = 0
            THEN LET bl == add_cont_bitmap_blocks_to_buf(front, num_block - 1, op)
                 IN  [dev |-> write_bl(d, s, addr, bl),
                      io |-> rd1 \o << <<"write", addr, Len(bl)>> >>]
            ELSE
              LET mid == add_cont_bitmap_blocks_to_buf(
                           front, MiddleBlocks(num_block), op)
                  next_addr == TrailingAddr(s, end)
                  block == DevRead(d, s, next_addr)
                  last_b == ApplyBits(DecodeBitmap(block),
                                      (end - (end % max)) % max, end % max, op)
                  bl == Append(mid, TrailingBlock(block, BitmapBlock(last_b)))
              IN  [dev |-> write_bl(d, s, addr, bl),
                   io |-> rd1 \o << <<"read", next_addr, 1>>,
                                    <<"write", addr, Len(bl)>> >>]

(* ------------------------------ mkfs ----------------------------------- *)

\* initialize_blk_alloc_area(): the first bitmap block with the bits of the
\* superblock and of the bitmap area set, the rest of the bitmap cleared,
\* then the tail bits past the last real block set in the last bitmap block.
initialize_blk_alloc_area(d, s) ==
  LET start == s.start_data_area \div s.block_size
      max == max_block_by_bitmap_block
      b_block == ApplyBits(alloc_rbm_bitmap_block_buf, 0, start - 1, "ALL_SET")
      d1 == rbm_sync_block_bitmap(d, s, b_block, s.start_alloc_area \div s.block_size)
      max_block == s.size \div s.block_size
      end == round_up_to(max_block, max) - 1
      d2 == rbm_sync_block_bitmap_by_range(d1, s, start, end, "ALL_CLEAR").dev
      na_block_no == s.size \div s.block_size
      remain_block == na_block_no % max
      b_last == ApplyBits(IF na_block_no > max
                          THEN alloc_rbm_bitmap_block_buf ELSE b_block,
                          remain_block, max - 1, "ALL_SET")
  IN  IF remain_block # 0
      THEN rbm_sync_block_bitmap(d2, s, b_last, na_block_no)
      ELSE d2

\* The super mkfs populates for config cfg = [start, end, block_size, total_size].
MkfsSuper(s, cfg) ==
  LET s1 == [s EXCEPT !.magic = RBM_MAGIC,
                      !.start = cfg.start,
                      !.end = cfg.end,
                      !.block_size = cfg.block_size,
                      !.size = cfg.total_size,
                      !.free_block_count =
                          Wrap(cfg.total_size \div cfg.block_size - 2)]
      s2 == [s1 EXCEPT !.alloc_area_size = get_alloc_area_size(s1),
                       !.start_alloc_area = RBM_SUPERBLOCK_SIZE]
  IN  [s2 EXCEPT !.start_data_area = s2.start_alloc_area + s2.alloc_area_size,
                 !.crc = 0,
                 !.feature = RBM_BITMAP_BLOCK_CRC]

\* mkfs(config): nothing when a header reads back, a fresh format when
\* read_rbm_header answers enoent, the error passed on otherwise.
mkfs(d, s, cfg) ==
  LET r == read_rbm_header(d, cfg.start \div cfg.block_size)
  IN  IF r.err = "ok" THEN [res |-> "ok", super |-> s, dev |-> d]
      ELSE IF r.err = "enoent"
      THEN LET w == write_rbm_header(d, MkfsSuper(s, cfg))
           IN  [res |-> "ok", super |-> w.super,
                dev |-> initialize_blk_alloc_area(w.dev, w.super)]
      ELSE [res |-> r.err, super |-> s, dev |-> d]

\* Mutant: the magic of the header read is not tested.
open_any_magic(d, s, addr_blk) ==
  LET r == read_rbm_header(d, addr_blk)
  IN  IF r.err # "ok" THEN [res |-> r.err, super |-> s]
      ELSE [res |-> "ok", super |-> r.hdr]

\* open(path, addr): the header read from addr becomes super; enoent when
\* its magic is not the one mkfs stores.
open(d, s, addr_blk) ==
  LET r == read_rbm_header(d, addr_blk)
  IN  IF r.err # "ok" THEN [res |-> r.err, super |-> s]
      ELSE IF r.hdr.magic # RBM_MAGIC THEN [res |-> "enoent", super |-> s]
      ELSE [res |-> "ok", super |-> r.hdr]

(* ------------------------- data read and write ------------------------ *)

\* A block of caller data.
DataBlock == [kind |-> "data"]

\* write(addr, bufferptr): erange beyond end - start, else the device write.
write(d, s, addr, buf) ==
  IF addr > s.end - s.start
  THEN [res |-> "erange", dev |-> d, io |-> <<>>]
  ELSE [res |-> "ok", dev |-> DevWrite(d, s, addr, buf),
        io |-> << <<"write", addr, Len(buf)>> >>]

\* read(addr, buffer) of len bytes: erange when the address or the length is
\* beyond end - start, else the device read.
read(d, s, addr, len) ==
  IF addr > s.end - s.start \/ len > s.end - s.start
  THEN [res |-> "erange", io |-> <<>>]
  ELSE [res |-> "ok", io |-> << <<"read", addr, len \div s.block_size>> >>]

(* ----------------------------- allocator ------------------------------- *)

\* interval_set<blk_id_t> is the set of its block ids; range_end() is one
\* past the last id.
range_end(ext) == SetMax(ext) + 1

\* Length of the run of S that starts at a.
RECURSIVE RunLen(_, _)
RunLen(S, a) == IF a \in S THEN 1 + RunLen(S, a + 1) ELSE 0

\* The intervals <<first, len>> of an interval_set in iteration order.
RECURSIVE Intervals(_)
Intervals(S) ==
  IF S = {} THEN <<>>
  ELSE LET a == SetMin(S)
           n == RunLen(S, a)
       IN  << <<a, n>> >> \o Intervals(S \ (a .. (a + n - 1)))

\* Block ids of the deltas of t with operation op.
RECURSIVE DeltaIds(_, _)
DeltaIds(t, op) ==
  IF t = <<>> THEN {}
  ELSE (IF Head(t).op = op THEN Head(t).alloc_blk_ids ELSE {})
         \cup DeltaIds(Tail(t), op)

\* The loop over allocated_blocks: its continue leaves the inner loop only,
\* so no candidate is skipped for being pending in t.
PendingSkip(t, block_id) == FALSE

\* Mutant: the on-disk bit is not consulted.
SkipCandidate_IgnoreBitmap(t, bits, i, block_id) == PendingSkip(t, block_id)

\* Whether the scan passes over candidate bit i of the bitmap block.
SkipCandidate(t, bits, i, block_id) ==
  PendingSkip(t, block_id) \/ is_allocated(bits, i)

\* Mutant: a gap never resets the run.
IsDiscontinuous_Never(acc, block_id) == FALSE

\* The test for a candidate that does not continue the accumulated run.
IsDiscontinuous(acc, block_id) ==
  acc.allocated # 0 /\ range_end(acc.ext) # block_id

\* The bits of one bitmap block from bit i on: the for loop of the scan.
RECURSIVE ScanBlock(_, _, _, _, _, _, _)
ScanBlock(s, t, bits, addr, want, i, acc) ==
  IF ~(i < max_block_by_bitmap_block /\ want > acc.allocated) THEN acc
  ELSE
    LET block_id == convert_bitmap_block_no_to_block_id(s, i, addr)
    IN  IF SkipCandidate(t, bits, i, block_id)
        THEN ScanBlock(s, t, bits, addr, want, i + 1, acc)
        ELSE IF IsDiscontinuous(acc, block_id)
        THEN ScanBlock(s, t, bits, addr, want, i + 1,
                       [acc EXCEPT !.allocated = 0, !.ext = {}])
        ELSE ScanBlock(s, t, bits, addr, want, i + 1,
                       [acc EXCEPT !.allocated = acc.allocated + 1,
                                   !.ext = acc.ext \cup {block_id}])

\* size as the rounds of the scan after the first may read it: the loop
\* body names the parameter size of find_free_block by reference, and runs
\* again after find_free_block has returned when a read does not complete at
\* once.  The value passed, or what the dead parameter's place then holds.
SizeSeen(s, size) == {size, 0, (MaxAllocBlocks + 1) * s.block_size}

\* The test that ends the scan at the end of the bitmap area.
ReachedDataArea(s, addr) == addr >= s.start_data_area

\* The do_until loop: one bitmap block read per round, from addr on; the
\* first round reads size, the later ones read later.
RECURSIVE ScanDevice(_, _, _, _, _, _, _)
ScanDevice(d, s, t, size, later, addr, acc) ==
  LET want == size \div s.block_size
      bits == DecodeBitmap(DevRead(d, s, addr))
      acc0 == [acc EXCEPT !.reads = Append(acc.reads, addr)]
      acc1 == ScanBlock(s, t, bits, addr, want, 0, acc0)
      addr1 == addr + s.block_size
  IN  IF want = acc1.allocated THEN acc1
      ELSE IF ReachedDataArea(s, addr1) THEN [acc1 EXCEPT !.ext = {}]
      ELSE ScanDevice(d, s, t, later, later, addr1, acc1)

\* find_free_block(t, size): the extent found (empty: none) and the
\* addresses read.
find_free_block(d, s, t, size, later) ==
  LET r == ScanDevice(d, s, t, size, later, s.start_alloc_area,
                      [allocated |-> 0, ext |-> {}, reads |-> <<>>])
  IN  [ext |-> IF r.allocated * s.block_size < size THEN {} ELSE r.ext,
       reads |-> r.reads]

\* Transaction::add_rbm_allocated_blocks
add_rbm_allocated_blocks(t, d) == Append(t, d)

\* alloc_extent(t, size)
alloc_extent(d, s, t, size, later) ==
  LET f == find_free_block(d, s, t, size, later)
  IN  IF f.ext # {}
      THEN [res |-> "ok", ext |-> f.ext, reads |-> f.reads,
            t |-> add_rbm_allocated_blocks(t, [op |-> "SET", alloc_blk_ids |-> f.ext])]
      ELSE [res |-> "enospc", ext |-> {}, reads |-> f.reads, t |-> t]

\* Mutant: the last block of the range is left out.
free_extent_exclusive(s, t, from, to) ==
  LET blk_id_start == from \div s.block_size
      blk_id_end == to \div s.block_size
  IN  add_rbm_allocated_blocks(
        t, [op |-> "CLEAR", alloc_blk_ids |-> blk_id_start .. (blk_id_end - 1)])

\* free_extent(t, from, to)
free_extent(s, t, from, to) ==
  LET blk_id_start == from \div s.block_size
      blk_id_end == to \div s.block_size
      ids == blk_id_start .. (blk_id_start + (blk_id_end - blk_id_start + 1) - 1)
  IN  add_rbm_allocated_blocks(t, [op |-> "CLEAR", alloc_blk_ids |-> ids])

\* Mutant: the deltas stay on the transaction.
abort_allocation_keep(t) == t

\* abort_allocation(t): t.clear_rbm_allocated_blocks()
abort_allocation(t) == <<>>

\* One range written to the bitmap after the operations of acc.  fail is the
\* device operation that ends in an input/output error, counted over the
\* call of complete_allocation (0: none does): the read or write that fails
\* is the last operation issued, the write that fails changes nothing.
AfterRange(acc, r, fail) ==
  IF fail > Len(acc.io) /\ fail <= Len(acc.io) + Len(r.io)
  THEN [dev |-> acc.dev,
        io |-> acc.io \o SubSeq(r.io, 1, fail - Len(acc.io)),
        err |-> TRUE]
  ELSE [dev |-> r.dev, io |-> acc.io \o r.io, err |-> FALSE]

\* The ranges of one delta written to the bitmap, in interval order, up to
\* the first error.
RECURSIVE SyncIntervals(_, _, _, _, _)
SyncIntervals(acc, s, ivs, op, fail) ==
  IF ivs = <<>> \/ acc.err THEN acc
  ELSE SyncIntervals(
         AfterRange(acc,
                    rbm_sync_block_bitmap_by_range(
                      acc.dev, s, Head(ivs)[1],
                      Head(ivs)[1] + Head(ivs)[2] - 1, op),
                    fail),
         s, Tail(ivs), op, fail)

\* The deltas of a transaction written to the bitmap, in insertion order,
\* up to the first error.
RECURSIVE SyncDeltas(_, _, _, _)
SyncDeltas(acc, s, t, fail) ==
  IF t = <<>> \/ acc.err THEN acc
  ELSE SyncDeltas(
         SyncIntervals(acc, s, Intervals(Head(t).alloc_blk_ids),
                       IF Head(t).op = "SET" THEN "ALL_SET" ELSE "ALL_CLEAR",
                       fail),
         s, Tail(t), fail)

\* Nothing issued yet on the device d.
NoIo(d) == [dev |-> d, io |-> <<>>, err |-> FALSE]

\* alloc_block_count: blocks of the SET deltas minus blocks of the CLEAR ones.
RECURSIVE AllocBlockCount(_)
AllocBlockCount(t) ==
  IF t = <<>> THEN 0
  ELSE (IF Head(t).op = "SET" THEN Cardinality(Head(t).alloc_blk_ids)
        ELSE 0 - Cardinality(Head(t).alloc_blk_ids))
       + AllocBlockCount(Tail(t))

\* The free_block_count complete_allocation leaves for alloc_block_count.
AdjustFreeBlockCount(fbc, alloc_block_count) ==
  IF alloc_block_count > 0
  THEN Wrap(fbc - alloc_block_count)
  ELSE Wrap(fbc + alloc_block_count)

\* complete_allocation(t) with the device operation fail ending in an
\* error: free_block_count is assigned in the continuation of the updates,
\* which an error skips.
complete_allocation_counting(d, s, t, fail) ==
  IF t = <<>> THEN [res |-> "ok", dev |-> d, io |-> <<>>, super |-> s]
  ELSE LET r == SyncDeltas(NoIo(d), s, t, fail)
       IN  [res |-> IF r.err THEN "input_output_error" ELSE "ok",
            dev |-> r.dev, io |-> r.io,
            super |-> [s EXCEPT !.free_block_count =
                         AdjustFreeBlockCount(s.free_block_count,
                                              AllocBlockCount(t))]]

complete_allocation_on(d, s, t, fail) ==
  IF t = <<>> THEN [res |-> "ok", dev |-> d, io |-> <<>>, super |-> s]
  ELSE LET r == SyncDeltas(NoIo(d), s, t, fail)
       IN  IF r.err
           THEN [res |-> "input_output_error", dev |-> r.dev, io |-> r.io,
                 super |-> s]
           ELSE [res |-> "ok", dev |-> r.dev, io |-> r.io,
                 super |-> [s EXCEPT !.free_block_count =
                              AdjustFreeBlockCount(s.free_block_count,
                                                   AllocBlockCount(t))]]

\* complete_allocation(t) on a device without errors
complete_allocation_persist(d, s, t) ==
  IF t = <<>> THEN [dev |-> d, io |-> <<>>, super |-> s, t |-> t]
  ELSE LET r == SyncDeltas(NoIo(d), s, t, 0)
           w == write_rbm_header(
                  r.dev,
                  [s EXCEPT !.free_block_count =
                     AdjustFreeBlockCount(s.free_block_count,
                                          AllocBlockCount(t))])
       IN  [dev |-> w.dev, io |-> r.io \o << <<"write", s.start, 1>> >>,
            super |-> w.super, t |-> t]

\* complete_allocation(t) taking the deltas out of the transaction
complete_allocation_consuming(d, s, t) ==
  complete_allocation_on(d, s, t, 0) @@ [t |-> <<>>]

\* complete_allocation(t) on a device without errors.  The call works on a
\* copy of the transaction's deltas; t is the transaction as the call leaves
\* it.
complete_allocation(d, s, t) ==
  complete_allocation_on(d, s, t, 0) @@ [t |-> t]

(* ----------------------------- ceph::timer ----------------------------- *)

\* Events one run adds to the timer.
MaxEvents == 3

\* Clock ticks of one run.
MaxTime == 5

\* The delays the runs pass to add_event, in seconds.
Durations == {1, 2, 4}

\* A timer as constructed: the clock at its epoch, nothing scheduled, no
\* event run or cancelled yet.
NewTimer ==
  [now |-> 0, schedule |-> {}, next_id |-> 0, ran |-> <<>>, cancelled |-> {}]

\* The order of the schedule: by time, then by id.
SchedCompare(a, b) == a.t < b.t \/ (a.t = b.t /\ a.id < b.id)

\* schedule.begin(): the event the timer thread looks at.
ScheduleBegin_Oldest(schedule) ==
  CHOOSE e \in schedule : \A o \in schedule : e.id <= o.id

ScheduleBegin(schedule) ==
  CHOOSE e \in schedule : \A o \in schedule \ {e} : SchedCompare(e, o)

\* add_event(duration, f): a new event at now + duration, with the next id.
add_event(tm, duration) ==
  [tm EXCEPT !.next_id = @ + 1,
             !.schedule = @ \cup {[t |-> tm.now + duration,
                                   id |-> tm.next_id + 1]}]

\* cancel_event(id): true and the event dropped when it is still scheduled,
\* false when it is not.
cancel_event(tm, id) ==
  IF \E e \in tm.schedule : e.id = id
  THEN [res |-> TRUE,
        timer |-> [tm EXCEPT !.schedule = {e \in @ : e.id # id},
                             !.cancelled = @ \cup {id}]]
  ELSE [res |-> FALSE, timer |-> tm]

\* cancel_all_events(): every scheduled event dropped without being run.
cancel_all_events(tm) ==
  [tm EXCEPT !.schedule = {},
             !.cancelled = @ \cup {e.id : e \in tm.schedule}]

\* One turn of the timer thread's inner loop: the first event of the
\* schedule, when its time has come, is taken off the schedule and run.
timer_thread(tm) ==
  LET p == ScheduleBegin(tm.schedule)
  IN  [tm EXCEPT !.schedule = @ \ {p},
                 !.ran = Append(@, [id |-> p.id, t |-> p.t])]

(* ----------------------- librbd object discard ----------------------- *)

\* Object sizes are 2^order bytes, order up to MaxObjectOrder.
MaxObjectOrder == 3

\* uint64_t arithmetic of the request, at the width of the model.
OffsetModulus == 2 ^ (MaxObjectOrder + 1)

\* No request constructed yet.
NoRequest == [m_discard_action |-> "none"]

\* ObjectDiscardRequest(ictx, oid, object_no, object_off, object_len, snapc,
\* disable_clone_remove, update_object_map, ...): object_size is
\* ictx->layout.object_size, has_parent the base class's m_has_parent and
\* snaps_empty is snapc.snaps.empty().  This variant removes the object
\* whether or not a parent is to be hidden.
ObjectDiscardRequest_AlwaysRemove(object_off, object_len, object_size, disable_clone_remove, has_parent, update_object_map, snaps_empty) ==
  LET base == [m_object_off |-> object_off, m_object_len |-> object_len,
               m_has_parent |-> has_parent, m_guard |-> TRUE,
               m_update_object_map |-> update_object_map]
  IN  IF object_off = 0 /\ object_len = object_size
      THEN base @@ [m_discard_action |-> "DISCARD_ACTION_REMOVE"]
      ELSE IF (object_off + object_len) % OffsetModulus = object_size
      THEN base @@ [m_discard_action |-> "DISCARD_ACTION_TRUNCATE"]
      ELSE base @@ [m_discard_action |-> "DISCARD_ACTION_ZERO"]

ObjectDiscardRequest(object_off, object_len, object_size, disable_clone_remove, has_parent, update_object_map, snaps_empty) ==
  LET base == [m_object_off |-> object_off, m_object_len |-> object_len,
               m_has_parent |-> has_parent, m_guard |-> TRUE,
               m_update_object_map |-> update_object_map]
  IN  IF object_off = 0 /\ object_len = object_size
      THEN IF disable_clone_remove /\ has_parent
           THEN [base EXCEPT !.m_object_len = 0, !.m_guard = ~snaps_empty]
                  @@ [m_discard_action |-> "DISCARD_ACTION_REMOVE_TRUNCATE"]
           ELSE [base EXCEPT !.m_guard = ~snaps_empty]
                  @@ [m_discard_action |-> "DISCARD_ACTION_REMOVE"]
      ELSE IF (object_off + object_len) % OffsetModulus = object_size
      THEN base @@ [m_discard_action |-> "DISCARD_ACTION_TRUNCATE"]
      ELSE base @@ [m_discard_action |-> "DISCARD_ACTION_ZERO"]

\* get_pre_write_object_map_state()
get_pre_write_object_map_state(req) ==
  IF req.m_discard_action = "DISCARD_ACTION_REMOVE"
  THEN "OBJECT_PENDING" ELSE "OBJECT_EXISTS"

\* add_write_ops(wr): the operation appended to the object write.
add_write_ops(req) ==
  CASE req.m_discard_action = "DISCARD_ACTION_REMOVE" -> <<"remove">>
    [] req.m_discard_action \in {"DISCARD_ACTION_REMOVE_TRUNCATE",
                                 "DISCARD_ACTION_TRUNCATE"} ->
         <<"truncate", req.m_object_off>>
    [] req.m_discard_action = "DISCARD_ACTION_ZERO" ->
         <<"zero", req.m_object_off, req.m_object_len>>

\* post_object_map_update()
post_object_map_update(req) ==
  req.m_update_object_map /\ req.m_discard_action = "DISCARD_ACTION_REMOVE"

(* ------------------------------- state --------------------------------- *)

VARIABLES
  dev,       \* the block device: block number -> block contents
  super,     \* the manager's in-memory superblock
  dev_open,  \* whether the manager holds the device open
  t,         \* the caller's current transaction: its list of deltas
  finished,  \* whether t was completed or aborted
  begin,     \* the device and free_block_count when t was created
  owned,     \* block ids committed by SET and not since by CLEAR
  last,      \* the last operation: its inputs, its result, the state before
  steps,     \* operations issued since open
  timer,     \* the ceph::timer of the timer runs and the clock it reads
  discard    \* the librbd object discard request in flight

vars ==
  <<dev, super, dev_open, t, finished, begin, owned, last, steps, timer,
    discard>>

\* The mkfs configuration of the transactional specification.
Config ==
  [start |-> 0, end |-> TotalBlocks * BlockSize, block_size |-> BlockSize,
   total_size |-> TotalBlocks * BlockSize]

\* What an operation records of itself.
Op(name, arg, res, ext, io) ==
  [op |-> name, arg |-> arg, res |-> res, ext |-> ext, io |-> io,
   dev0 |-> dev, t0 |-> t, fbc0 |-> super.free_block_count]

Init ==
  /\ dev = [b \in 0 .. (TotalBlocks - 1) |-> ZeroBlock]
  /\ super = EmptySuper
  /\ dev_open = FALSE
  /\ t = <<>>
  /\ finished = TRUE
  /\ begin = [dev |-> dev, fbc |-> 0]
  /\ owned = {}
  /\ last = [op |-> "none", arg |-> <<>>, res |-> "ok", ext |-> {}, io |-> <<>>,
             dev0 |-> dev, t0 |-> <<>>, fbc0 |-> 0]
  /\ steps = 0
  /\ timer = NewTimer
  /\ discard = NoRequest

\* Request sizes in bytes: one, two, MaxAllocBlocks - 1 and MaxAllocBlocks
\* whole blocks, less than a block, a block and a byte.
AllocSizes ==
  {k * BlockSize : k \in {1, 2, MaxAllocBlocks - 1, MaxAllocBlocks}}
    \cup {1, BlockSize + 1}

\* First block id of the data area.
DataStart == super.start_data_area \div super.block_size

\* Block ids of the data area.
DataIds == DataStart .. (super.size \div super.block_size - 1)

Mkfs ==
  /\ ~dev_open
  /\ last.op = "none"
  /\ LET r == mkfs(dev, super, Config)
     IN  /\ dev' = r.dev
         /\ super' = r.super
         /\ last' = Op("mkfs", <<>>, r.res, {}, <<>>)
  /\ UNCHANGED <<dev_open, t, finished, begin, owned, steps, timer, discard>>

Open ==
  /\ ~dev_open
  /\ last.op = "mkfs"
  /\ LET r == open(dev, super, 0)
     IN  /\ r.res = "ok"
         /\ super' = r.super
         /\ dev_open' = TRUE
         /\ last' = Op("open", <<>>, r.res, {}, <<>>)
  /\ UNCHANGED <<dev, t, finished, begin, owned, steps, timer, discard>>

\* The caller creates the next transaction once the current one is finished.
NewTransaction ==
  /\ dev_open
  /\ finished
  /\ steps < MaxSteps
  /\ t' = <<>>
  /\ finished' = FALSE
  /\ begin' = [dev |-> dev, fbc |-> super.free_block_count]
  /\ last' = Op("new", <<>>, "ok", {}, <<>>)
  /\ steps' = steps + 1
  /\ UNCHANGED <<dev, super, dev_open, owned, timer, discard>>

\* alloc_extent(t, size) on a transaction of any length.
AllocExtentCall ==
  /\ dev_open
  /\ ~finished
  /\ steps < MaxSteps
  /\ \E size \in AllocSizes :
     \E r \in {alloc_extent(dev, super, t, size, later) :
                later \in SizeSeen(super, size)} :
       /\ t' = r.t
       /\ last' = Op("alloc", size, r.res, r.ext,
                     [k \in 1 .. Len(r.reads) |-> <<"read", r.reads[k], 1>>])
  /\ steps' = steps + 1
  /\ UNCHANGED <<dev, super, dev_open, finished, begin, owned, timer, discard>>

AllocExtent == Len(t) < MaxDeltas /\ AllocExtentCall

FreeExtent ==
  /\ dev_open
  /\ ~finished
  /\ steps < MaxSteps
  /\ Len(t) < MaxDeltas
  /\ \E b \in DataIds : \E n \in 1 .. MaxFreeLen :
     \E off \in {0, super.block_size - 1} :
       /\ b + n - 1 \in DataIds
       /\ LET from == b * super.block_size
              to == (b + n - 1) * super.block_size + off
          IN  /\ t' = free_extent(super, t, from, to)
              /\ last' = Op("free", <<from, to>>, "ok", {}, <<>>)
  /\ steps' = steps + 1
  /\ UNCHANGED <<dev, super, dev_open, finished, begin, owned, timer, discard>>

\* owned after the deltas of t were committed in order.
RECURSIVE Commit(_, _)
Commit(o, tx) ==
  IF tx = <<>> THEN o
  ELSE Commit(IF Head(tx).op = "SET" THEN o \cup Head(tx).alloc_blk_ids
              ELSE o \ Head(tx).alloc_blk_ids, Tail(tx))

CompleteAllocation ==
  /\ dev_open
  /\ steps < MaxSteps
  /\ LET r == complete_allocation(dev, super, t)
     IN  /\ dev' = r.dev
         /\ super' = r.super
         /\ t' = r.t
         /\ last' = Op("complete", <<>>, "ok", {}, r.io)
  /\ owned' = Commit(owned, t)
  /\ finished' = TRUE
  /\ steps' = steps + 1
  /\ UNCHANGED <<dev_open, begin, timer, discard>>

AbortAllocation ==
  /\ dev_open
  /\ ~finished
  /\ steps < MaxSteps
  /\ t' = abort_allocation(t)
  /\ last' = Op("abort", <<>>, "ok", {}, <<>>)
  /\ finished' = TRUE
  /\ steps' = steps + 1
  /\ UNCHANGED <<dev, super, dev_open, begin, owned, timer, discard>>

Next ==
  \/ Mkfs
  \/ Open
  \/ NewTransaction
  \/ AllocExtent
  \/ FreeExtent
  \/ CompleteAllocation
  \/ AbortAllocation

Spec == Init /\ [][Next]_vars

(* -------------------- the allocator on any bitmap ---------------------- *)

\* The device and super mkfs leaves on a blank device.
Formatted == mkfs([b \in 0 .. (TotalBlocks - 1) |-> ZeroBlock], EmptySuper, Config)

\* Device d with the bits of the block ids in A set as well.
WithBitsSet(d, A) ==
  [b \in DOMAIN d |->
     IF d[b].kind = "bitmap"
     THEN BitmapBlock([i \in BitIdx |->
            d[b].bits[i] \/ ((b - 1) * max_block_by_bitmap_block + i) \in A])
     ELSE d[b]]

\* Any allocation state of the data area, an open manager, a fresh transaction.
InitFind ==
  /\ \E A \in SUBSET ((Formatted.super.start_data_area \div BlockSize)
                        .. (TotalBlocks - 1)) :
       /\ dev = WithBitsSet(Formatted.dev, A)
       /\ owned = A
  /\ super = Formatted.super
  /\ dev_open = TRUE
  /\ t = <<>>
  /\ finished = FALSE
  /\ begin = [dev |-> dev, fbc |-> super.free_block_count]
  /\ last = [op |-> "none", arg |-> <<>>, res |-> "ok", ext |-> {}, io |-> <<>>,
             dev0 |-> dev, t0 |-> <<>>, fbc0 |-> super.free_block_count]
  /\ steps = 0
  /\ timer = NewTimer
  /\ discard = NoRequest

\* One request on the state drawn.
NextFind == steps = 0 /\ AllocExtent

SpecFind == InitFind /\ [][NextFind]_vars

(* ---------------- two requests on one transaction ---------------------- *)

\* A second alloc_extent on the transaction the first one was issued on.
NextPair == steps < 2 /\ AllocExtent

SpecPair == InitFind /\ [][NextPair]_vars

(* -------------------------- format and open --------------------------- *)

\* Device sizes of the format specification, in blocks: a device with one
\* bitmap block, one with several, and the smallest one whose bitmap area
\* together with the superblock has more blocks than a bitmap block has bits.
SmallDeviceBlocks == 6

MidDeviceBlocks == 20

LargeDeviceBlocks == max_block_by_bitmap_block * (max_block_by_bitmap_block - 1) + 1

\* Operations issued in one run of the format specification.
MaxFormatSteps == 2

\* total_size of the configurations, in blocks; one block is too small for a
\* superblock and a bitmap block.
FormatBlocks == {1, SmallDeviceBlocks, MidDeviceBlocks, LargeDeviceBlocks}

\* Superblock addresses of the configurations, in bytes.
FormatStarts == {0, BlockSize}

\* mkfs_config_t values: end - start = total_size.
MkfsConfigs ==
  {[start |-> a, end |-> a + n * BlockSize, block_size |-> BlockSize,
    total_size |-> n * BlockSize] : a \in FormatStarts, n \in FormatBlocks}

\* mkfs takes its configuration by value and its continuations capture it
\* by reference ([this, &config]).  A continuation that runs while the
\* caller's call expression is still being evaluated reads the
\* configuration passed; one that runs after mkfs returned (the device
\* open or the header read did not complete at once) reads the storage of
\* a parameter that no longer exists, which may hold any value: here any
\* configuration of the small device.
ConfigSeen(cfg) ==
  {cfg} \cup {c \in MkfsConfigs : c.total_size = SmallDeviceBlocks * BlockSize}

\* The physical device: room for the largest configuration at either start.
BlankDevice == [b \in 0 .. LargeDeviceBlocks |-> ZeroBlock]

\* A device formatted and in use: some data blocks allocated by committed
\* transactions.
UsedDevice ==
  LET f == mkfs(BlankDevice, EmptySuper,
                [start |-> 0, end |-> MidDeviceBlocks * BlockSize,
                 block_size |-> BlockSize,
                 total_size |-> MidDeviceBlocks * BlockSize])
      first == f.super.start_data_area \div BlockSize
  IN  WithBitsSet(f.dev, {first, first + 1, MidDeviceBlocks - 1})

\* A device whose block 0 holds a header with a verifying crc and a magic
\* other than the one mkfs stores.
ForeignDevice ==
  write_rbm_header(
    BlankDevice,
    [MkfsSuper(EmptySuper,
               [start |-> 0, end |-> SmallDeviceBlocks * BlockSize,
                block_size |-> BlockSize,
                total_size |-> SmallDeviceBlocks * BlockSize])
       EXCEPT !.magic = RBM_MAGIC - 1]).dev

InitFormat ==
  /\ dev \in {BlankDevice, UsedDevice, ForeignDevice}
  /\ super = EmptySuper
  /\ dev_open = FALSE
  /\ t = <<>>
  /\ finished = TRUE
  /\ begin = [dev |-> dev, fbc |-> 0]
  /\ owned = {}
  /\ last = [op |-> "none", arg |-> <<>>, res |-> "ok", ext |-> {}, io |-> <<>>,
             dev0 |-> dev, t0 |-> <<>>, fbc0 |-> 0]
  /\ steps = 0
  /\ timer = NewTimer
  /\ discard = NoRequest

\* mkfs(config) by a caller holding the manager closed.
MkfsAny ==
  /\ ~dev_open
  /\ steps < MaxFormatSteps
  /\ \E cfg \in MkfsConfigs : \E seen \in ConfigSeen(cfg) :
       LET r == mkfs(dev, super, seen)
       IN  /\ dev' = r.dev
           /\ super' = r.super
           /\ last' = Op("mkfs", [cfg |-> cfg, seen |-> seen], r.res, {}, <<>>)
  /\ steps' = steps + 1
  /\ UNCHANGED <<dev_open, t, finished, begin, owned, timer, discard>>

\* open(path, addr): the manager holds the device afterwards; super is
\* assigned only when the header passed both tests.
OpenAt ==
  /\ ~dev_open
  /\ steps < MaxFormatSteps
  /\ \E addr \in FormatStarts :
       LET r == open(dev, super, addr \div BlockSize)
       IN  /\ super' = r.super
           /\ dev_open' = (r.res = "ok")
           /\ last' = Op("open", addr, r.res, {}, <<>>)
  /\ steps' = steps + 1
  /\ UNCHANGED <<dev, t, finished, begin, owned, timer, discard>>

\* close()
Close ==
  /\ dev_open
  /\ steps < MaxFormatSteps
  /\ dev_open' = FALSE
  /\ last' = Op("close", <<>>, "ok", {}, <<>>)
  /\ steps' = steps + 1
  /\ UNCHANGED <<dev, super, t, finished, begin, owned, timer, discard>>

\* Fields of a persisted superblock the medium may alter.
CorruptFields == {"magic", "size", "free_block_count", "crc"}

\* The medium alters a persisted superblock that is still as it was
\* written: one field changes, or the block no longer decodes.
Corrupt ==
  /\ ~dev_open
  /\ steps < MaxFormatSteps
  /\ \E addr \in FormatStarts :
       LET b == addr \div BlockSize
       IN  /\ dev[b].kind = "super"
           /\ HeaderCrc(dev[b].hdr) = dev[b].hdr.crc
           /\ \/ \E f \in CorruptFields :
                   dev' = [dev EXCEPT ![b] =
                             SuperBlock([dev[b].hdr EXCEPT ![f] = @ + 1])]
              \/ dev' = [dev EXCEPT ![b] = ZeroBlock]
           /\ last' = Op("corrupt", addr, "ok", {}, <<>>)
  /\ steps' = steps + 1
  /\ UNCHANGED <<super, dev_open, t, finished, begin, owned, timer, discard>>

NextFormat ==
  \/ MkfsAny
  \/ OpenAt
  \/ Close
  \/ Corrupt

SpecFormat == InitFormat /\ [][NextFormat]_vars

(* ------------------- a device with one slack bit ----------------------- *)

\* Blocks of a device whose last bitmap block has one bit of tail slack.
SlackDeviceBlocks == 2 * max_block_by_bitmap_block - 1

\* Operations issued in one run on that device.
MaxSlackSteps == 3

\* mkfs on a blank device of SlackDeviceBlocks blocks.
SlackFormatted ==
  mkfs([b \in 0 .. (SlackDeviceBlocks - 1) |-> ZeroBlock], EmptySuper,
       [start |-> 0, end |-> SlackDeviceBlocks * BlockSize,
        block_size |-> BlockSize, total_size |-> SlackDeviceBlocks * BlockSize])

\* The device freshly formatted or with every data block allocated by
\* committed transactions; an open manager and a fresh transaction.
InitSlack ==
  /\ \E A \in {{}, (SlackFormatted.super.start_data_area \div BlockSize)
                      .. (SlackDeviceBlocks - 1)} :
       /\ dev = WithBitsSet(SlackFormatted.dev, A)
       /\ owned = A
  /\ super = SlackFormatted.super
  /\ dev_open = TRUE
  /\ t = <<>>
  /\ finished = FALSE
  /\ begin = [dev |-> dev, fbc |-> super.free_block_count]
  /\ last = [op |-> "none", arg |-> <<>>, res |-> "ok", ext |-> {}, io |-> <<>>,
             dev0 |-> dev, t0 |-> <<>>, fbc0 |-> super.free_block_count]
  /\ steps = 0
  /\ timer = NewTimer
  /\ discard = NoRequest

\* free_extent(t, from, to) for any range of whole data blocks, to being the
\* last byte of the last block.
FreeAnyExtent ==
  /\ dev_open
  /\ ~finished
  /\ Len(t) < MaxDeltas
  /\ \E b \in DataIds : \E e \in DataIds :
       /\ b <= e
       /\ LET from == b * super.block_size
              to == e * super.block_size + (super.block_size - 1)
          IN  /\ t' = free_extent(super, t, from, to)
              /\ last' = Op("free", <<from, to>>, "ok", {}, <<>>)
  /\ steps' = steps + 1
  /\ UNCHANGED <<dev, super, dev_open, finished, begin, owned, timer, discard>>

NextSlack ==
  \/ steps < MaxSlackSteps /\ FreeAnyExtent
  \/ steps < MaxSlackSteps /\ AllocExtent
  \/ steps < MaxSlackSteps /\ CompleteAllocation
  \/ steps < MaxSlackSteps /\ AbortAllocation
  \/ steps < MaxSlackSteps /\ NewTransaction

SpecSlack == InitSlack /\ [][NextSlack]_vars

(* ---------------------- reads and writes of data ---------------------- *)

\* Reads and writes issued in one run.
MaxIOSteps == 2

\* Byte addresses handed to read and write: the superblock, the first data
\* block, the last block, end - start, and one block beyond.
IOAddrs ==
  {0, super.start_data_area, super.end - super.start - super.block_size,
   super.end - super.start, super.end - super.start + super.block_size}

\* Buffer lengths in bytes: one block, two blocks, a block more than
\* end - start.
IOLengths ==
  {super.block_size, 2 * super.block_size,
   super.end - super.start + super.block_size}

\* A buffer of len bytes of caller data.
DataBuf(len) == [k \in 1 .. (len \div super.block_size) |-> DataBlock]

\* An open manager on the device mkfs formatted.
InitIO ==
  /\ dev = Formatted.dev
  /\ super = Formatted.super
  /\ dev_open = TRUE
  /\ t = <<>>
  /\ finished = TRUE
  /\ begin = [dev |-> dev, fbc |-> super.free_block_count]
  /\ owned = {}
  /\ last = [op |-> "none", arg |-> <<>>, res |-> "ok", ext |-> {}, io |-> <<>>,
             dev0 |-> dev, t0 |-> <<>>, fbc0 |-> super.free_block_count]
  /\ steps = 0
  /\ timer = NewTimer
  /\ discard = NoRequest

\* read(addr, buffer)
Read ==
  /\ dev_open
  /\ steps < MaxIOSteps
  /\ \E addr \in IOAddrs : \E len \in IOLengths :
       LET r == read(dev, super, addr, len)
       IN  last' = Op("read", [addr |-> addr, len |-> len], r.res, {}, r.io)
  /\ steps' = steps + 1
  /\ UNCHANGED <<dev, super, dev_open, t, finished, begin, owned, timer, discard>>

\* write(addr, bufferptr)
Write ==
  /\ dev_open
  /\ steps < MaxIOSteps
  /\ \E addr \in IOAddrs : \E len \in IOLengths :
       LET r == write(dev, super, addr, DataBuf(len))
       IN  /\ dev' = r.dev
           /\ last' = Op("write", [addr |-> addr, len |-> len], r.res, {}, r.io)
  /\ steps' = steps + 1
  /\ UNCHANGED <<super, dev_open, t, finished, begin, owned, timer, discard>>

\* write(addr, bufferlist)
WriteList ==
  /\ dev_open
  /\ steps < MaxIOSteps
  /\ \E addr \in IOAddrs : \E len \in IOLengths :
       /\ dev' = write_bl(dev, super, addr, DataBuf(len))
       /\ last' = Op("write_list", [addr |-> addr, len |-> len], "ok", {},
                     << <<"write", addr, len \div super.block_size>> >>)
  /\ steps' = steps + 1
  /\ UNCHANGED <<super, dev_open, t, finished, begin, owned, timer, discard>>

NextIO ==
  \/ Read
  \/ Write
  \/ WriteList

SpecIO == InitIO /\ [][NextIO]_vars

(* --------------- one bitmap update on any range ----------------------- *)

\* Blocks of a device whose bitmap area has four bitmap blocks, the last one
\* with three bits of tail slack.
RangeDeviceBlocks == 4 * max_block_by_bitmap_block - 3

\* mkfs on a blank device of RangeDeviceBlocks blocks.
RangeFormatted ==
  mkfs([b \in 0 .. (RangeDeviceBlocks - 1) |-> ZeroBlock], EmptySuper,
       [start |-> 0, end |-> RangeDeviceBlocks * BlockSize,
        block_size |-> BlockSize, total_size |-> RangeDeviceBlocks * BlockSize])

\* The device freshly formatted, with every other data block allocated, or
\* with every data block allocated; an open manager.
InitRange ==
  /\ \E A \in {{},
               {id \in (RangeFormatted.super.start_data_area \div BlockSize)
                         .. (RangeDeviceBlocks - 1) : id % 2 = 1},
               (RangeFormatted.super.start_data_area \div BlockSize)
                 .. (RangeDeviceBlocks - 1)} :
       /\ dev = WithBitsSet(RangeFormatted.dev, A)
       /\ owned = A
  /\ super = RangeFormatted.super
  /\ dev_open = TRUE
  /\ t = <<>>
  /\ finished = FALSE
  /\ begin = [dev |-> dev, fbc |-> super.free_block_count]
  /\ last = [op |-> "none", arg |-> <<>>, res |-> "ok", ext |-> {}, io |-> <<>>,
             dev0 |-> dev, t0 |-> <<>>, fbc0 |-> super.free_block_count]
  /\ steps = 0
  /\ timer = NewTimer
  /\ discard = NoRequest

\* rbm_sync_block_bitmap_by_range(start, end, op) on any range of the bitmap.
SyncRange ==
  /\ dev_open
  /\ \E start \in 0 .. ((super.alloc_area_size \div super.block_size)
                          * max_block_by_bitmap_block - 1) :
     \E end \in 0 .. ((super.alloc_area_size \div super.block_size)
                        * max_block_by_bitmap_block - 1) :
     \E op \in {"ALL_SET", "ALL_CLEAR"} :
       /\ start <= end
       /\ LET r == rbm_sync_block_bitmap_by_range(dev, super, start, end, op)
          IN  /\ dev' = r.dev
              /\ last' = Op("sync", [start |-> start, end |-> end, op |-> op],
                            "ok", {}, r.io)
  /\ steps' = steps + 1
  /\ UNCHANGED <<super, dev_open, t, finished, begin, owned, timer, discard>>

\* One update on the state drawn.
NextRange == steps = 0 /\ SyncRange

SpecRange == InitRange /\ [][NextRange]_vars

(* ------------------ one scan of four bitmap blocks -------------------- *)

\* Block ids of the data area of the four-bitmap-block device, by bitmap
\* block and half of it.
ScanChunks ==
  {{id \in (RangeFormatted.super.start_data_area \div BlockSize)
             .. (RangeDeviceBlocks - 1) :
      /\ id \div max_block_by_bitmap_block = b
      /\ (id % max_block_by_bitmap_block < max_block_by_bitmap_block \div 2)
           = (h = 0)} :
     b \in 0 .. 3, h \in {0, 1}}

\* The device with any of these chunks allocated by committed transactions;
\* an open manager and a fresh transaction.
InitScan ==
  /\ \E S \in SUBSET ScanChunks :
       /\ dev = WithBitsSet(RangeFormatted.dev, UNION S)
       /\ owned = UNION S
  /\ super = RangeFormatted.super
  /\ dev_open = TRUE
  /\ t = <<>>
  /\ finished = FALSE
  /\ begin = [dev |-> dev, fbc |-> super.free_block_count]
  /\ last = [op |-> "none", arg |-> <<>>, res |-> "ok", ext |-> {}, io |-> <<>>,
             dev0 |-> dev, t0 |-> <<>>, fbc0 |-> super.free_block_count]
  /\ steps = 0
  /\ timer = NewTimer
  /\ discard = NoRequest

\* One request on the state drawn.
NextScan == steps = 0 /\ AllocExtent

SpecScan == InitScan /\ [][NextScan]_vars

(* ------------------------- runs of the timer --------------------------- *)

\* The block manager is not part of a timer run.
rbm_vars == <<dev, super, dev_open, t, finished, begin, owned, last, steps>>

InitTimer == Init

\* timer.add_event(duration, callback) by the run.
AddEvent ==
  /\ timer.next_id < MaxEvents
  /\ \E duration \in Durations :
       /\ timer.now + duration <= MaxTime
       /\ timer' = add_event(timer, duration)
  /\ UNCHANGED <<rbm_vars, discard>>

\* timer.cancel_event(e) by the run, for an event it added.
CancelEvent ==
  /\ \E id \in 1 .. timer.next_id :
       /\ cancel_event(timer, id).res
       /\ timer' = cancel_event(timer, id).timer
  /\ UNCHANGED <<rbm_vars, discard>>

\* timer.cancel_all_events() by the run.
CancelAllEvents ==
  /\ timer.schedule # {}
  /\ timer' = cancel_all_events(timer)
  /\ UNCHANGED <<rbm_vars, discard>>

\* The clock advances by one second.
Tick ==
  /\ timer.now < MaxTime
  /\ timer' = [timer EXCEPT !.now = @ + 1]
  /\ UNCHANGED <<rbm_vars, discard>>

\* The timer thread runs the first event of the schedule once it is due.
TimerThread ==
  /\ timer.schedule # {}
  /\ ScheduleBegin(timer.schedule).t <= timer.now
  /\ timer' = timer_thread(timer)
  /\ UNCHANGED <<rbm_vars, discard>>

NextTimer ==
  \/ AddEvent
  \/ CancelEvent
  \/ CancelAllEvents
  \/ Tick
  \/ TimerThread

\* The clock keeps advancing and the timer thread, woken at the time of the
\* first scheduled event, keeps running what is due.
SpecTimer ==
  InitTimer /\ [][NextTimer]_vars /\ WF_vars(Tick) /\ WF_vars(TimerThread)

(* ------------------- device errors while committing ------------------- *)

\* complete_allocation(t) on a device whose operation number fail, counted
\* from the first one the call issues, ends in an input/output error; a call
\* that issues fewer operations meets no error.
CompleteAllocationFault ==
  /\ dev_open
  /\ \E fail \in 1 .. MaxFault :
       LET r == complete_allocation_on(dev, super, t, fail)
       IN  /\ dev' = r.dev
           /\ super' = r.super
           /\ last' = Op("complete", fail, r.res, {}, r.io)
           /\ owned' = IF r.res = "ok" THEN Commit(owned, t) ELSE owned
  /\ finished' = TRUE
  /\ steps' = steps + 1
  /\ UNCHANGED <<dev_open, t, begin, timer, discard>>

\* The transactions one more alloc_extent or free_extent of whole data
\* blocks makes of the transactions T on the device d.
PendingAfter(d, s, T) ==
  LET ids == (s.start_data_area \div s.block_size)
               .. (s.size \div s.block_size - 1)
  IN  {alloc_extent(d, s, tx, size, size).t : tx \in T, size \in AllocSizes}
        \cup
      {free_extent(s, x[1], x[2] * s.block_size,
                   (x[2] + x[3] - 1) * s.block_size + (s.block_size - 1)) :
         x \in {y \in T \X ids \X (1 .. MaxFreeLen) : y[2] + y[3] - 1 \in ids}}

\* An open device, empty or full, and a transaction of up to two requests.
InitFault ==
  /\ \E A \in {{}, (SlackFormatted.super.start_data_area \div BlockSize)
                      .. (SlackDeviceBlocks - 1)} :
       /\ dev = WithBitsSet(SlackFormatted.dev, A)
       /\ owned = A
  /\ super = SlackFormatted.super
  /\ dev_open = TRUE
  /\ t \in PendingAfter(dev, super, PendingAfter(dev, super, {<<>>}))
  /\ finished = FALSE
  /\ begin = [dev |-> dev, fbc |-> super.free_block_count]
  /\ last = [op |-> "none", arg |-> <<>>, res |-> "ok", ext |-> {}, io |-> <<>>,
             dev0 |-> dev, t0 |-> <<>>, fbc0 |-> super.free_block_count]
  /\ steps = 0
  /\ timer = NewTimer
  /\ discard = NoRequest

NextFault == steps = 0 /\ CompleteAllocationFault

SpecFault == InitFault /\ [][NextFault]_vars

(* ------------------- committing a transaction twice ------------------- *)

\* complete_allocation(t) called, and called once more on the transaction
\* the first call returns with.
NextTwice == steps \in {0, 1} /\ CompleteAllocation

SpecTwice == InitFault /\ [][NextTwice]_vars

(* ------------- a request after two requests of a transaction ---------- *)

NextRelease == steps = 0 /\ AllocExtentCall

SpecRelease == InitFault /\ [][NextRelease]_vars

(* --------------------- object discard requests ------------------------ *)

\* A discard request constructed for an extent inside one object.
NewDiscard ==
  /\ discard = NoRequest
  /\ \E order \in 1 .. MaxObjectOrder :
     \E object_off \in 0 .. (2 ^ order) :
     \E object_len \in 0 .. (2 ^ order) :
     \E disable_clone_remove \in BOOLEAN, has_parent \in BOOLEAN,
        update_object_map \in BOOLEAN, snaps_empty \in BOOLEAN :
       /\ object_off + object_len <= 2 ^ order
       /\ discard' =
            ObjectDiscardRequest(object_off, object_len, 2 ^ order,
                                 disable_clone_remove, has_parent,
                                 update_object_map, snaps_empty)
              @@ [object_off |-> object_off, object_len |-> object_len,
                  object_size |-> 2 ^ order,
                  disable_clone_remove |-> disable_clone_remove,
                  pre |-> "none", ops |-> <<>>, post |-> <<>>]
  /\ UNCHANGED <<rbm_vars, timer>>

\* The object map state asked for before the write.
PreWrite ==
  /\ discard # NoRequest
  /\ discard.pre = "none"
  /\ discard' = [discard EXCEPT !.pre = get_pre_write_object_map_state(discard)]
  /\ UNCHANGED <<rbm_vars, timer>>

\* The write operation assembled.
AddWriteOps ==
  /\ discard # NoRequest
  /\ discard.pre # "none"
  /\ discard.ops = <<>>
  /\ discard' = [discard EXCEPT !.ops = add_write_ops(discard)]
  /\ UNCHANGED <<rbm_vars, timer>>

\* After the write: whether the object map is updated once more.
PostWrite ==
  /\ discard # NoRequest
  /\ discard.ops # <<>>
  /\ discard.post = <<>>
  /\ discard' = [discard EXCEPT !.post = <<post_object_map_update(discard)>>]
  /\ UNCHANGED <<rbm_vars, timer>>

NextDiscard ==
  \/ NewDiscard
  \/ PreWrite
  \/ AddWriteOps
  \/ PostWrite

SpecDiscard == Init /\ [][NextDiscard]_vars

(* ------------------------- claims: vocabulary -------------------------- *)

\* The on-disk bit of block id in device d.
BitOf(d, s, id) ==
  DecodeBitmap(d[s.start_alloc_area \div s.block_size
                   + id \div max_block_by_bitmap_block])
    [id % max_block_by_bitmap_block]

\* Block ids the bitmap area of super s has a bit for.
BitmapIds(s) ==
  0 .. ((s.alloc_area_size \div s.block_size) * max_block_by_bitmap_block - 1)

\* The bit of id once the deltas of tx are applied in order to value v.
RECURSIVE BitAfter(_, _, _)
BitAfter(v, tx, id) ==
  IF tx = <<>> THEN v
  ELSE BitAfter(IF id \in Head(tx).alloc_blk_ids THEN Head(tx).op = "SET" ELSE v,
                Tail(tx), id)

\* Blocks of the deltas of tx with operation op, delta by delta.
RECURSIVE DeltaBlocks(_, _)
DeltaBlocks(tx, op) ==
  IF tx = <<>> THEN 0
  ELSE (IF Head(tx).op = op THEN Cardinality(Head(tx).alloc_blk_ids) ELSE 0)
       + DeltaBlocks(Tail(tx), op)

\* A successful alloc_extent was the last operation.
Allocated == last.op = "alloc" /\ last.res = "ok"

\* Blocks requested by the last alloc_extent, rounded up.
Requested == (last.arg + super.block_size - 1) \div super.block_size

\* Block ids free for the last alloc_extent: bit clear on disk before the
\* call and not in a pending SET delta of the transaction.
FreeBefore ==
  {b \in BitmapIds(super) :
     ~BitOf(last.dev0, super, b) /\ b \notin DeltaIds(last.t0, "SET")}

\* First ids of the runs of k free blocks.
FreeRuns(k) == {a \in FreeBefore : \A j \in 0 .. (k - 1) : (a + j) \in FreeBefore}

(* ------------------------------ claims --------------------------------- *)

\* C1: two successive successful alloc_extent calls on one transaction record
\* disjoint block-id sets: no id of a pending SET delta is handed out again.
C1_PendingDisjoint ==
  Allocated => last.ext \cap DeltaIds(last.t0, "SET") = {}

\* C2: every block id a successful alloc_extent records had its on-disk bit
\* clear at the time of the call.
C2_AllocatedBitsWereClear ==
  Allocated => \A b \in last.ext : ~BitOf(last.dev0, super, b)

\* C2 witness: an allocation that had to pass over a set bit of the data area.
C2_Witness ==
  /\ Allocated
  /\ \E b \in DataIds : b < SetMin(last.ext) /\ BitOf(last.dev0, super, b)

\* C3: with transactions used one at a time, a block id committed by a SET
\* delta is not handed out again unless a committed CLEAR covered it since.
C3_NoDoubleAllocation ==
  Allocated => last.ext \cap owned = {}

\* C4: after complete_allocation the on-disk bitmap shows the deltas exactly:
\* covered bits have the value of the last delta covering them, every other
\* bit its value before the call.
C4_BitmapReflectsDeltas ==
  last.op = "complete" =>
    \A id \in BitmapIds(super) :
      BitOf(dev, super, id) = BitAfter(BitOf(last.dev0, super, id), last.t0, id)

\* C5: after complete_allocation free_block_count is its value before minus
\* the blocks of the SET deltas plus the blocks of the CLEAR deltas.
C5_FreeBlockCount ==
  last.op = "complete" =>
    super.free_block_count =
      Wrap(last.fbc0 - DeltaBlocks(last.t0, "SET") + DeltaBlocks(last.t0, "CLEAR"))

\* C6: abort is pure.  alloc_extent and free_extent write nothing, after
\* abort_allocation the device and free_block_count are those of before the
\* transaction's first call and its delta list is empty, and
\* complete_allocation on an empty delta list does nothing.
C6_AbortIsPure ==
  /\ last.op \in {"alloc", "free", "abort"} =>
       /\ dev = last.dev0
       /\ super.free_block_count = last.fbc0
       /\ \A k \in 1 .. Len(last.io) : last.io[k][1] # "write"
  /\ last.op = "abort" =>
       /\ dev = begin.dev
       /\ super.free_block_count = begin.fbc
       /\ t = <<>>
       /\ last.io = <<>>
  /\ (last.op = "complete" /\ last.t0 = <<>>) =>
       /\ dev = last.dev0
       /\ super.free_block_count = last.fbc0
       /\ last.io = <<>>

\* C6 witness: a transaction holding an allocation and a free was aborted.
C6_Witness ==
  /\ last.op = "abort"
  /\ DeltaIds(last.t0, "SET") # {}
  /\ DeltaIds(last.t0, "CLEAR") # {}

\* C7: free_extent appends exactly one CLEAR delta for the inclusive block
\* range [from / block_size, to / block_size], succeeds, and touches neither
\* the device nor free_block_count.
C7_FreeExtent ==
  last.op = "free" =>
    LET first == last.arg[1] \div super.block_size
        final == last.arg[2] \div super.block_size
    IN  /\ last.res = "ok"
        /\ t = Append(last.t0, [op |-> "CLEAR", alloc_blk_ids |-> first .. final])
        /\ Cardinality(t[Len(t)].alloc_blk_ids) = final - first + 1
        /\ dev = last.dev0
        /\ super.free_block_count = last.fbc0
        /\ last.io = <<>>

\* C7 witness: a range of two blocks whose last byte is not block aligned
\* was freed on a transaction that already held a delta.
C7_Witness ==
  /\ last.op = "free"
  /\ last.arg[2] \div super.block_size = last.arg[1] \div super.block_size + 1
  /\ last.arg[2] % super.block_size # 0
  /\ last.t0 # <<>>

\* C8: find_free_block returns the empty set or exactly ceil(size /
\* block_size) blocks, and the empty set only when no contiguous free run of
\* that length exists.
C8_CountOrEmpty ==
  last.op = "alloc" =>
    /\ last.ext = {} \/ Cardinality(last.ext) = Requested
    /\ last.ext = {} => FreeRuns(Requested) = {}

\* C9: a non-empty result of find_free_block is one contiguous interval.
C9_Contiguous ==
  Allocated => last.ext = SetMin(last.ext) .. SetMax(last.ext)

\* C9 witness: the run returned crosses a bitmap-block boundary and lies
\* behind a free block and an allocated gap.
C9_Witness ==
  /\ Allocated
  /\ (max_block_by_bitmap_block - 1) \in last.ext
  /\ max_block_by_bitmap_block \in last.ext
  /\ \E a, b \in DataIds :
       /\ a < b /\ b < SetMin(last.ext)
       /\ ~BitOf(last.dev0, super, a)
       /\ BitOf(last.dev0, super, b)

\* C10: allocation is first fit: the run returned for k blocks is the
\* contiguous run of k free blocks with the lowest first id.
C10_FirstFit ==
  Allocated =>
    /\ FreeRuns(Requested) # {}
    /\ SetMin(last.ext) = SetMin(FreeRuns(Requested))

\* C11: a request for a whole number k of blocks returns enospc exactly when
\* no contiguous run of k free blocks (bit clear on disk, not pending in the
\* transaction) exists; whenever such a run exists alloc_extent succeeds.
C11_EnospcOnlyWhenNoRun ==
  (last.op = "alloc" /\ last.arg % super.block_size = 0) =>
    /\ last.res \in {"ok", "enospc"}
    /\ (last.res = "enospc") <=> (FreeRuns(Requested) = {})

\* Block ids whose bit is clear in device d.
ClearOnDisk(d) == {b \in BitmapIds(super) : ~BitOf(d, super, b)}

\* C12: where exactly N blocks are free and form one run, alloc_extent of
\* N blocks succeeds with that run; a following alloc_extent of one block on
\* the same transaction returns enospc, adds no delta, and leaves the device
\* and free_block_count as they were.
C12_FullThenEnospc ==
  /\ (/\ last.op = "alloc"
      /\ last.t0 = <<>>
      /\ ClearOnDisk(last.dev0) # {}
      /\ ClearOnDisk(last.dev0) =
           SetMin(ClearOnDisk(last.dev0)) .. SetMax(ClearOnDisk(last.dev0))
      /\ last.arg = Cardinality(ClearOnDisk(last.dev0)) * super.block_size)
     => (last.res = "ok" /\ last.ext = ClearOnDisk(last.dev0))
  /\ (/\ last.op = "alloc"
      /\ Len(last.t0) = 1
      /\ last.t0[1].op = "SET"
      /\ last.t0[1].alloc_blk_ids = ClearOnDisk(last.dev0)
      /\ last.arg = super.block_size)
     => /\ last.res = "enospc"
        /\ t = last.t0
        /\ dev = last.dev0
        /\ super.free_block_count = last.fbc0

\* A header with a verifying crc and the magic mkfs stores is in block b of d.
ValidSuperAt(d, b) ==
  /\ d[b].kind = "super"
  /\ HeaderCrc(d[b].hdr) = d[b].hdr.crc
  /\ d[b].hdr.magic = RBM_MAGIC

\* A configuration with room for a superblock and a bitmap block.
ValidConfig(cfg) ==
  /\ cfg.total_size >= 2 * cfg.block_size
  /\ cfg.end - cfg.start = cfg.total_size

\* The configuration the caller passed to the last mkfs.
Passed == last.arg.cfg

\* C13: format round trip.  mkfs(cfg) with a valid cfg on an unformatted
\* device succeeds, and open(path, cfg.start) then succeeds and yields the
\* superblock written: size = total_size, block_size = cfg.block_size,
\* free_block_count = total_size / block_size - 2, start_alloc_area =
\* RBM_SUPERBLOCK_SIZE, start_data_area = start_alloc_area + alloc_area_size.
C13_FormatRoundTrip ==
  (last.op = "mkfs" /\ last.dev0 = BlankDevice /\ ValidConfig(Passed)) =>
    LET o == open(dev, EmptySuper, Passed.start \div Passed.block_size)
    IN  /\ last.res = "ok"
        /\ o.res = "ok"
        /\ o.super = super
        /\ o.super.size = Passed.total_size
        /\ o.super.block_size = Passed.block_size
        /\ o.super.free_block_count =
             Passed.total_size \div Passed.block_size - 2
        /\ o.super.start_alloc_area = RBM_SUPERBLOCK_SIZE
        /\ o.super.start_data_area =
             o.super.start_alloc_area + o.super.alloc_area_size

ReservedIds == BitmapIds(super) \ DataIds

\* C15: in every state reached after mkfs by alloc_extent, free_extent,
\* complete_allocation and abort_allocation, the bits of the superblock, of
\* the bitmap area and of the tail slack are 1, and no alloc_extent returns
\* one of those block ids.
C15_ReservedBitsStay ==
  dev_open =>
    /\ \A i \in ReservedIds : BitOf(dev, super, i)
    /\ Allocated => last.ext \cap ReservedIds = {}

C17_FormatsUnlessValid ==
  (/\ last.op = "mkfs"
   /\ ValidConfig(Passed)
   /\ ~ValidSuperAt(last.dev0, Passed.start \div Passed.block_size)) =>
    /\ last.res = "ok"
    /\ super.magic = RBM_MAGIC
    /\ dev # last.dev0

\* C18: mkfs with a total_size below two blocks fails with an
\* invalid-config error and writes nothing; no mkfs leaves a superblock
\* whose free_block_count exceeds the blocks of the device.
C18_InvalidConfigRejected ==
  last.op = "mkfs" =>
    /\ Passed.total_size < 2 * Passed.block_size =>
         (last.res = "invalid_config" /\ dev = last.dev0)
    /\ super.free_block_count * super.block_size <= super.size

\* C19: open succeeds only on a header with a verifying crc and the
\* well-known magic, and super is then that header; a crc mismatch gives an
\* io error, a block that does not decode or another magic gives enoent;
\* open never succeeds on a superblock that was altered after it was written.
C19_OpenVerifies ==
  /\ [](last.op = "open" =>
          LET c == last.dev0[last.arg \div BlockSize]
          IN  /\ last.res = "ok" =>
                   (ValidSuperAt(last.dev0, last.arg \div BlockSize)
                      /\ super = c.hdr /\ dev_open)
              /\ c.kind # "super" => last.res = "enoent"
              /\ (c.kind = "super" /\ HeaderCrc(c.hdr) # c.hdr.crc) =>
                   last.res = "eio"
              /\ (/\ c.kind = "super"
                  /\ HeaderCrc(c.hdr) = c.hdr.crc
                  /\ c.hdr.magic # RBM_MAGIC) => last.res = "enoent"
              /\ last.res # "ok" => (~dev_open /\ dev = last.dev0))
  /\ [][(last.op = "corrupt" /\ last'.op = "open" /\ last'.arg = last.arg)
          => last'.res \in {"enoent", "eio"}]_vars

\* C19 witness: open failed with an io error on a superblock one field of
\* which was altered after mkfs wrote it.
C19_Witness ==
  /\ last.op = "open"
  /\ last.res = "eio"
  /\ last.dev0[last.arg \div BlockSize].kind = "super"
  /\ last.dev0[last.arg \div BlockSize].hdr.magic = RBM_MAGIC

\* C20: a manager read or write (single buffer or buffer list) with
\* addr > end - start fails with erange and issues no device operation; a
\* read fails with erange as well when the buffer is longer than end - start.
C20_RangeChecked ==
  last.op \in {"read", "write", "write_list"} =>
    /\ last.arg.addr > super.end - super.start =>
         (last.res = "erange" /\ last.io = <<>> /\ dev = last.dev0)
    /\ (last.op = "read" /\ last.arg.len > super.end - super.start) =>
         (last.res = "erange" /\ last.io = <<>>)

(* ----------------------- free_block_count bound ------------------------- *)

\* C21: after mkfs and any sequence of committed and aborted transactions the
\* in-memory free_block_count is at most size / block_size - 2, the value
\* set at format time: it never wraps below zero and never grows past it.
C21_FreeBlockCountBounded ==
  dev_open =>
    super.free_block_count <= (super.size \div super.block_size) - 2

(* ------------------- bitmap updates on a range ------------------------- *)

\* rbm_sync_block_bitmap_by_range was the last operation.
Synced == last.op = "sync"

\* Device operations of the last operation of one kind.
IsRead(e) == e[1] = "read"

IsWrite(e) == e[1] = "write"

\* The address of the bitmap block that holds the bit of block id.
BitmapAddr(id) ==
  super.start_alloc_area
    + (id \div max_block_by_bitmap_block) * super.block_size

\* C22: after rbm_sync_block_bitmap_by_range(start, end, op) every on-disk
\* bit in [start, end] has the value of op (1 for ALL_SET, 0 for ALL_CLEAR),
\* whatever the alignment of the range, the head of the last bitmap block
\* included when both ends are unaligned.
C22_RangeHasOp ==
  Synced =>
    \A id \in last.arg.start .. last.arg.end :
      BitOf(dev, super, id) = (last.arg.op = "ALL_SET")

\* C23: rbm_sync_block_bitmap_by_range(start, end, op) leaves every on-disk
\* bit outside [start, end] as it was, also when start is a multiple of M
\* and end is not the last bit of a bitmap block.
C23_OutsideUnchanged ==
  Synced =>
    \A id \in BitmapIds(super) \ (last.arg.start .. last.arg.end) :
      BitOf(dev, super, id) = BitOf(last.dev0, super, id)

\* C27: the one device write of rbm_sync_block_bitmap_by_range(start, end, op)
\* starts at the address of the bitmap block that holds start and is
\* (end / M - start / M + 1) blocks long.
C27_WriteExtent ==
  Synced =>
    LET writes == SelectSeq(last.io, IsWrite)
    IN  /\ Len(writes) = 1
        /\ writes[1][2] = BitmapAddr(last.arg.start)
        /\ writes[1][3] * super.block_size =
             ((last.arg.end \div max_block_by_bitmap_block)
                - (last.arg.start \div max_block_by_bitmap_block) + 1)
               * super.block_size

\* A range with both ends unaligned over four bitmap blocks was written.
C27_Witness ==
  /\ Synced
  /\ last.arg.start % max_block_by_bitmap_block # 0
  /\ (last.arg.end + 1) % max_block_by_bitmap_block # 0
  /\ (last.arg.end \div max_block_by_bitmap_block)
       - (last.arg.start \div max_block_by_bitmap_block) = 3
  /\ Len(SelectSeq(last.io, IsWrite)) = 1
  /\ dev # last.dev0

\* C28: rbm_sync_block_bitmap_by_range(start, end, op) issues no read
\* exactly when start % M = 0 and (end + 1) % M = 0.
C28_NoReadIffAligned ==
  Synced =>
    (SelectSeq(last.io, IsRead) = <<>>
       <=> (/\ last.arg.start % max_block_by_bitmap_block = 0
            /\ (last.arg.end + 1) % max_block_by_bitmap_block = 0))

\* C29: one call of rbm_sync_block_bitmap_by_range issues at most two device
\* reads and exactly one device write, reads only the bitmap blocks that
\* hold start and end, never one strictly between them, and issues every
\* read before the write.
C29_TwoReadsOneWrite ==
  Synced =>
    /\ Len(SelectSeq(last.io, IsRead)) <= 2
    /\ Len(SelectSeq(last.io, IsWrite)) = 1
    /\ IsWrite(last.io[Len(last.io)])
    /\ \A k \in 1 .. Len(last.io) :
         IsRead(last.io[k]) =>
           /\ last.io[k][3] = 1
           /\ last.io[k][2] \in {BitmapAddr(last.arg.start),
                                 BitmapAddr(last.arg.end)}

\* Both end blocks of a range with bitmap blocks between them were read.
C29_Witness ==
  /\ Synced
  /\ Len(SelectSeq(last.io, IsRead)) = 2
  /\ (last.arg.end \div max_block_by_bitmap_block)
       - (last.arg.start \div max_block_by_bitmap_block) >= 2
  /\ last.io[1][2] # last.io[2][2]

(* --------------------- order of the bitmap updates --------------------- *)

\* The ranges of the deltas of tx, delta by delta in insertion order and,
\* within a delta, in interval order.
RECURSIVE FlatRanges(_)
FlatRanges(tx) ==
  IF tx = <<>> THEN <<>>
  ELSE Intervals(Head(tx).alloc_blk_ids) \o FlatRanges(Tail(tx))

\* The operation of the last delta of tx that holds block id.
RECURSIVE LaterOp(_, _)
LaterOp(tx, id) ==
  IF id \in tx[Len(tx)].alloc_blk_ids THEN tx[Len(tx)].op
  ELSE LaterOp(SubSeq(tx, 1, Len(tx) - 1), id)

\* Block ids held by a SET delta and by a CLEAR delta of tx.
SetAndCleared(tx) ==
  {id \in UNION {tx[k].alloc_blk_ids : k \in 1 .. Len(tx)} :
     \E j \in 1 .. Len(tx) : \E k \in 1 .. Len(tx) :
       /\ id \in tx[j].alloc_blk_ids /\ tx[j].op = "SET"
       /\ id \in tx[k].alloc_blk_ids /\ tx[k].op = "CLEAR"}

\* The bitmap updates of complete_allocation were issued one after the
\* other in the order of FlatRanges: the k-th write is the write of the
\* k-th range and the device operation before the next range's is a write.
UpdatesInOrder ==
  LET writes == SelectSeq(last.io, IsWrite)
      ranges == FlatRanges(last.t0)
  IN  /\ Len(writes) = Len(ranges)
      /\ \A k \in 1 .. Len(ranges) :
           /\ writes[k][2] = BitmapAddr(ranges[k][1])
           /\ writes[k][3] =
                ((ranges[k][1] + ranges[k][2] - 1) \div max_block_by_bitmap_block)
                  - (ranges[k][1] \div max_block_by_bitmap_block) + 1
      /\ last.io # <<>> => IsWrite(last.io[Len(last.io)])
      /\ \A k \in 1 .. Len(last.io) :
           IsRead(last.io[k]) =>
             \E j \in (k + 1) .. (k + 2) :
               /\ j <= Len(last.io)
               /\ IsWrite(last.io[j])

\* C24: complete_allocation issues the bitmap updates of a transaction in
\* delta insertion order and, within a delta, in interval order, one
\* finished before the next starts; a block held by a SET and by a CLEAR
\* delta of the transaction ends with the on-disk bit of the later delta.
C24_UpdatesInDeltaOrder ==
  last.op = "complete" =>
    /\ UpdatesInOrder
    /\ \A id \in SetAndCleared(last.t0) :
         BitOf(dev, super, id) = (LaterOp(last.t0, id) = "SET")

(* -------------------- the superblock on the device --------------------- *)

\* The device block that holds the superblock.
SuperBlockNo == super.start \div super.block_size

\* C25: alloc_extent, free_extent, complete_allocation and abort_allocation
\* leave the superblock on the device, its free_block_count included, as it
\* was: none of their writes covers it, and complete_allocation changes
\* free_block_count in memory only.
C25_SuperblockNotWritten ==
  last.op \in {"alloc", "free", "complete", "abort"} =>
    /\ dev[SuperBlockNo] = last.dev0[SuperBlockNo]
    /\ ValidSuperAt(dev, SuperBlockNo)
    /\ \A k \in 1 .. Len(last.io) :
         IsWrite(last.io[k]) =>
           ~(/\ last.io[k][2] <= super.start
             /\ super.start < last.io[k][2] + last.io[k][3] * super.block_size)
    /\ [super EXCEPT !.free_block_count = dev[SuperBlockNo].hdr.free_block_count]
         = dev[SuperBlockNo].hdr

\* complete_allocation changed the bitmap and the free_block_count in
\* memory, which now differs from the one on the device.
C25_Witness ==
  /\ last.op = "complete"
  /\ last.t0 # <<>>
  /\ dev # last.dev0
  /\ super.free_block_count # last.fbc0
  /\ super.free_block_count # dev[SuperBlockNo].hdr.free_block_count

(* ------------------------- order of the timer -------------------------- *)

\* Ids of the events the timer thread has run.
RanIds == {timer.ran[k].id : k \in 1 .. Len(timer.ran)}

BitmapBlocks == super.alloc_area_size \div super.block_size

SuperBefore == [super EXCEPT !.free_block_count = last.fbc0]

\* The device operations the last complete_allocation issues when none fails.
FaultlessIo == complete_allocation(last.dev0, SuperBefore, last.t0).io

\* The blocks the writes of an operation sequence cover.
WrittenBlocks(io) ==
  UNION {(io[k][2] \div super.block_size)
           .. (io[k][2] \div super.block_size + io[k][3] - 1) :
         k \in {j \in 1 .. Len(io) : IsWrite(io[j])}}

\* C31: when a bitmap read or write of complete_allocation fails, the call
\* returns the error, the failing operation is the last one it issues (no
\* retry, no further update), the operations before it are the ones of an
\* error-free call, blocks not written before the failure keep their content
\* and free_block_count keeps the value it had before the call; a call whose
\* operations all succeed returns ok.
C31_ErrorStopsCommit ==
  last.op = "complete" =>
    IF last.arg <= Len(FaultlessIo)
    THEN /\ last.res = "input_output_error"
         /\ last.io = SubSeq(FaultlessIo, 1, last.arg)
         /\ super.free_block_count = last.fbc0
         /\ \A b \in DOMAIN dev :
              b \notin WrittenBlocks(SubSeq(last.io, 1, last.arg - 1))
                => dev[b] = last.dev0[b]
    ELSE /\ last.res = "ok"
         /\ last.io = FaultlessIo

\* An error after the first delta of two was written: the second is not.
C31_Witness ==
  /\ last.op = "complete"
  /\ last.res = "input_output_error"
  /\ Len(last.t0) = 2
  /\ \E k \in 1 .. (Len(last.io) - 1) : IsWrite(last.io[k])
  /\ Len(last.io) < Len(FaultlessIo)
  /\ AllocBlockCount(last.t0) # 0

(* ---------------- the transaction after its commit -------------------- *)

\* The target and length of each device operation of a sequence.
IoShape(io) == [k \in 1 .. Len(io) |-> <<io[k][1], io[k][2], io[k][3]>>]

\* C32: complete_allocation leaves the transaction's delta list as it found
\* it, so a second call on the same transaction issues the bitmap updates of
\* the first call again, leaves the bitmap as the first call left it, and
\* adjusts free_block_count by the transaction's block count a second time.
C32_TransactionKept ==
  [][(last'.op = "complete" /\ steps' = steps + 1) =>
       /\ t' = t
       /\ super'.free_block_count =
            AdjustFreeBlockCount(super.free_block_count, AllocBlockCount(t))
       /\ (last.op = "complete" =>
             /\ last'.t0 = last.t0
             /\ IoShape(last'.io) = IoShape(last.io)
             /\ dev' = dev
             /\ super'.free_block_count =
                  AdjustFreeBlockCount(
                    AdjustFreeBlockCount(last.fbc0, AllocBlockCount(last.t0)),
                    AllocBlockCount(last.t0)))]_vars

\* The second commit of a transaction of two deltas has written the bitmap
\* again and moved free_block_count again.
C32_Witness ==
  /\ last.op = "complete"
  /\ steps = 2
  /\ Len(t) = 2
  /\ last.t0 = t
  /\ \E k \in 1 .. Len(last.io) : IsWrite(last.io[k])
  /\ super.free_block_count # last.fbc0
  /\ last.fbc0 # begin.fbc

(* ------------------ blocks with a pending CLEAR ------------------------ *)

\* The block ids a transaction releases: ids of its CLEAR deltas that were
\* allocated before, by a committed SET (o) or by an earlier SET delta of the
\* transaction itself.
Released(tx, o) ==
  UNION {tx[k].alloc_blk_ids
           \cap (o \cup UNION {tx[j].alloc_blk_ids :
                               j \in {i \in 1 .. (k - 1) : tx[i].op = "SET"}}) :
         k \in {i \in 1 .. Len(tx) : tx[i].op = "CLEAR"}}

\* C33: alloc_extent never hands out a block that a pending CLEAR delta of
\* the transaction releases; every block it hands out is clear in the
\* on-disk bitmap, which a released block is only after complete_allocation
\* wrote its CLEAR, and never after abort_allocation.
C33_PendingClearKept ==
  (last.op = "alloc" /\ last.res = "ok") =>
    /\ last.ext \cap Released(last.t0, owned) = {}
    /\ \A id \in last.ext : ~BitOf(last.dev0, super, id)

(* --------------- free_block_count and the bitmap ----------------------- *)

\* The number of 0 bits in the bitmap blocks of a device.
ZeroBits(d) == Cardinality(ClearOnDisk(d))

\* The blocks of all CLEAR deltas of a transaction.
ClearIds(tx) ==
  UNION {tx[k].alloc_blk_ids : k \in {i \in 1 .. Len(tx) : tx[i].op = "CLEAR"}}

\* C34: between operations free_block_count is the number of 0 bits of the
\* on-disk bitmap: after a successful mkfs, and again after the commit of
\* every transaction that frees only blocks allocated before, when it was so
\* before the commit.
C34_FreeCountIsZeroBits ==
  /\ []((last.op = "mkfs" /\ last.res = "ok")
          => super.free_block_count = ZeroBits(dev))
  /\ [][(/\ last'.op = "complete"
         /\ steps' = steps + 1
         /\ ClearIds(t) = Released(t, owned)
         /\ super.free_block_count = ZeroBits(dev))
          => super'.free_block_count = ZeroBits(dev')]_vars

(* -------------------- the action of a discard ------------------------- *)

DiscardActions ==
  {"DISCARD_ACTION_REMOVE", "DISCARD_ACTION_REMOVE_TRUNCATE",
   "DISCARD_ACTION_TRUNCATE", "DISCARD_ACTION_ZERO"}

\* The discard covers the whole object.
WholeObject == discard.object_off = 0 /\ discard.object_len = discard.object_size

\* C35: a discard request has exactly one action: REMOVE for the whole
\* object, REMOVE_TRUNCATE with the length set to 0 instead when clone
\* removal is disabled and the object has a parent; TRUNCATE for a part of
\* the object that ends at the object's end; ZERO for any other part.  The
\* object map state before the write is OBJECT_PENDING exactly for REMOVE,
\* and the object map is updated after the write only for REMOVE with
\* update_object_map set.
C35_DiscardAction ==
  discard # NoRequest =>
    /\ discard.m_discard_action \in DiscardActions
    /\ discard.m_discard_action = "DISCARD_ACTION_REMOVE"
         <=> (WholeObject
                /\ ~(discard.disable_clone_remove /\ discard.m_has_parent))
    /\ discard.m_discard_action = "DISCARD_ACTION_REMOVE_TRUNCATE"
         <=> (WholeObject
                /\ discard.disable_clone_remove /\ discard.m_has_parent)
    /\ discard.m_discard_action = "DISCARD_ACTION_REMOVE_TRUNCATE"
         => discard.m_object_len = 0
    /\ discard.m_discard_action # "DISCARD_ACTION_REMOVE_TRUNCATE"
         => discard.m_object_len = discard.object_len
    /\ discard.m_discard_action = "DISCARD_ACTION_TRUNCATE"
         <=> (~WholeObject
                /\ discard.object_off + discard.object_len = discard.object_size)
    /\ discard.m_discard_action = "DISCARD_ACTION_ZERO"
         <=> (~WholeObject
                /\ discard.object_off + discard.object_len # discard.object_size)
    /\ discard.pre # "none" =>
         (discard.pre = "OBJECT_PENDING"
            <=> discard.m_discard_action = "DISCARD_ACTION_REMOVE")
    /\ discard.post = <<TRUE>> =>
         (discard.m_discard_action = "DISCARD_ACTION_REMOVE"
            /\ discard.m_update_object_map)

\* A whole-object discard on a clone with clone removal disabled, sent: the
\* object is truncated to 0 and the object map left alone after the write.
C35_Witness ==
  /\ discard # NoRequest
  /\ discard.m_discard_action = "DISCARD_ACTION_REMOVE_TRUNCATE"
  /\ discard.m_update_object_map
  /\ discard.pre = "OBJECT_EXISTS"
  /\ discard.ops = <<"truncate", 0>>
  /\ discard.post = <<FALSE>>

====
